---- MODULE Spec2Model ----
(***************************************************************************)
(* Synthetic e-commerce event generators:                                  *)
(*   src/data_generation/stream_events.py   (continuous stream, Pub/Sub)   *)
(*   src/data_generation/backfill_events.py (one-shot historical backfill) *)
(* One run executes one of the two scripts; `mode` says which.             *)
(*                                                                         *)
(* Random draws are nondeterministic choices.  The values that no branch of *)
(* either script reads back (event_id, on_sale, sale_price, rating, source, *)
(* the backfill quantity of an acquisition, the stream timestamp) keep     *)
(* their key in the event record and carry a token naming the draw.        *)
(***************************************************************************)
EXTENDS Integers, Sequences, FiniteSets, TLC

\* ------------------------------------------------------------------ bounds
\* random.randint(1, 10) views per session, cut to 1..MaxViews
MaxViews == 2
\* deque(maxlen=100), scaled down so that eviction happens within MaxSessions
MemCapacity == 2
\* sessions generated in one run (the stream loop is endless, a backfill run
\* generates thousands): enough to fill the deque, evict its oldest entry and
\* run one more session after that
MaxSessions == MemCapacity + 2

\* ------------------------------------------------------- program constants
NUM_DAYS_HISTORY == 90
AVG_SESSIONS_PER_DAY == 250

\* the value of a local that is not bound
NoProduct == [product_id |-> "None", product_name |-> "None",
              in_stock |-> "None"]

\* products.csv as written by create_catalog.py: csv.DictWriter writes the
\* boolean in_stock as the text "True" / "False"; DictReader reads text back.
product_catalog ==
    << [product_id |-> "SKU-LAP-0001", product_name |-> "Acme Pro 100",
        in_stock |-> "True"],
       [product_id |-> "SKU-DRO-0002", product_name |-> "Apex Max Kit",
        in_stock |-> "False"] >>

CatalogIds == { product_catalog[k].product_id : k \in 1..Len(product_catalog) }

VARIABLES
    mode,                 \* "stream" | "backfill": the script that runs
    pc,                   \* position of the script
    recent_user_activity, \* stream: deque of <<user_id, product>>
    n_appended,           \* history: number of appends to recent_user_activity
    mem_seq,              \* history: insertion number of each deque entry
    n_sessions,           \* sessions generated so far (source of session ids)
    session_id, user_id, source, prev_product, cart, purchased_items, events,
    n_views, i,           \* range(random.randint(1, 10)) and its index
    session_timestamp,    \* backfill: argument of generate_user_session
    session_events,       \* stream driver: the events of session_events that
                          \* the for loop of line 168 has not passed yet
    today, day,           \* backfill driver: today.weekday(), loop variable
    sessions_multiplier,  \* backfill driver, in tenths (15 = 1.5, 10 = 1.0)
    num_sessions_range,   \* backfill driver: <<lo, hi>> of random.randint
    sessions_left,        \* backfill driver: iterations of the session loop left
    has_historical_events \* backfill driver: all_historical_events is not empty

vars == << mode, pc, recent_user_activity, n_appended, mem_seq, n_sessions,
           session_id, user_id, source, prev_product, cart, purchased_items,
           events, n_views, i, session_timestamp, session_events,
           today, day, sessions_multiplier,
           num_sessions_range, sessions_left, has_historical_events >>

session_locals == << session_id, user_id, source, prev_product, cart,
                     purchased_items, events, n_views, i, session_timestamp >>
memory_vars == << recent_user_activity, n_appended, mem_seq >>
backfill_driver_vars == << today, day, sessions_multiplier,
                           num_sessions_range, sessions_left,
                           has_historical_events >>

\* ----------------------------------------------------------- event factory
EventKeys == { "event_id", "event_timestamp", "user_id", "session_id",
               "event_type", "product_id", "on_sale", "sale_price",
               "quantity", "rating", "source" }

PricedTypes == { "add_to_cart", "purchase", "return_item" }

\* the name column of the catalog row in place of its id column
event_product_name(product) == product.product_name

\* "product_id": product['product_id']
event_product_id(product) == product.product_id

\* "quantity": -1 if event_type == 'return_item' else 1
stream_quantity(etype) == IF etype = "return_item" THEN -1 ELSE 1

\* the keys of the event dict whose value is None (stream_events.py)
stream_none_keys(etype) ==
    (IF etype \in PricedTypes THEN {} ELSE {"sale_price"})
    \cup (IF etype = "submit_review" THEN {} ELSE {"rating"})

\* _create_event of stream_events.py: build the dict, drop the None values
stream_create_event(sid, uid, src, etype, product) ==
    [ k \in EventKeys \ stream_none_keys(etype) |->
        CASE k = "event_id"        -> "evt-uuid4"
          [] k = "event_timestamp" -> "now"
          [] k = "user_id"         -> uid
          [] k = "session_id"      -> sid
          [] k = "event_type"      -> etype
          [] k = "product_id"      -> event_product_id(product)
          [] k = "on_sale"         -> "random() < 0.25"
          [] k = "sale_price"      -> "price"
          [] k = "quantity"        -> stream_quantity(etype)
          [] k = "rating"          -> "randint(1, 5)"
          [] k = "source"          -> src ]

\* quantity of backfill_events.py
backfill_quantity(etype) ==
    IF etype \in {"purchase", "add_to_cart"} THEN "randint(1, 3)"
    ELSE IF etype = "return_item" THEN -1 ELSE 1

\* the keys of the event dict whose value is None (backfill_events.py)
backfill_none_keys(etype) ==
    (IF etype \in PricedTypes THEN {} ELSE {"sale_price"})
    \cup (IF etype = "submit_review" THEN {} ELSE {"rating"})

\* _create_event of backfill_events.py; timestamp in seconds
backfill_create_event(sid, uid, src, etype, product, timestamp) ==
    [ k \in EventKeys \ backfill_none_keys(etype) |->
        CASE k = "event_id"        -> "evt-uuid4"
          [] k = "event_timestamp" -> timestamp
          [] k = "user_id"         -> uid
          [] k = "session_id"      -> sid
          [] k = "event_type"      -> etype
          [] k = "product_id"      -> event_product_id(product)
          [] k = "on_sale"         -> "random() < 0.25"
          [] k = "sale_price"      -> "price"
          [] k = "quantity"        -> backfill_quantity(etype)
          [] k = "rating"          -> "randint(1, 5)"
          [] k = "source"          -> src ]

\* ------------------------------------------------------ repeat-user memory
\* a plain list in place of the deque: nothing is ever discarded
list_append(dq, entry) == Append(dq, entry)

\* deque(maxlen=...).append: when full, the leftmost entry is discarded
deque_append(dq, entry) ==
    IF Len(dq) >= MemCapacity THEN Append(Tail(dq), entry) ELSE Append(dq, entry)

\* ------------------------------------------------------------ random draws
\* user-{random.randint(1, 500)} and user-{random.randint(1, 250)}: both ends
StreamUsers == {1, 500}
BackfillUsers == {1, 250}

\* random.sample(cart, k): k distinct positions of the cart, in drawn order
Samples(n, k) ==
    { s \in [1..k -> 1..n] : \A a, b \in 1..k : a # b => s[a] # s[b] }

\* the subsequence of sq at the positions where keep is TRUE
Positions(keep) ==
    SelectSeq([ j \in 1..Len(keep) |-> j ], LAMBDA j : keep[j])

\* ------------------------------------------------------------------- Init
\* today.weekday() of the run (0 = Monday .. 6 = Sunday)
Todays == 0..6

\* module level of either script: the loaded catalog, the empty deque,
\* nothing generated yet
Init ==
    /\ mode \in {"stream", "backfill"}
    /\ pc = IF mode = "stream" THEN "loop" ELSE "day_loop"
    /\ recent_user_activity = << >>
    /\ n_appended = 0
    /\ mem_seq = << >>
    /\ n_sessions = 0
    /\ session_id = 0
    /\ user_id = 0
    /\ source = "None"
    /\ prev_product = NoProduct
    /\ cart = << >>
    /\ purchased_items = << >>
    /\ events = << >>
    /\ n_views = 0
    /\ i = 0
    /\ session_timestamp = 0
    /\ session_events = << >>
    /\ today \in IF mode = "backfill" THEN Todays ELSE {0}
    /\ day = IF mode = "backfill" THEN NUM_DAYS_HISTORY ELSE 0
    /\ sessions_multiplier = 0
    /\ num_sessions_range = << 0, 0 >>
    /\ sessions_left = 0
    /\ has_historical_events = FALSE

\* the locals of generate_user_session after it has returned or raised
LocalsGone ==
    /\ session_id' = 0
    /\ user_id' = 0
    /\ source' = "None"
    /\ prev_product' = NoProduct
    /\ cart' = << >>
    /\ purchased_items' = << >>
    /\ events' = << >>
    /\ n_views' = 0
    /\ i' = 0
    /\ session_timestamp' = 0

\* ------------------------------------------- stream: generate_user_session
\* the shortcut viewing the product again in place of buying it
stream_repeat_view(sid, entry, src) ==
    stream_create_event(sid, entry[1], src, "product_view", entry[2])

\* the purchase of the repeat-purchase shortcut (line 81)
stream_repeat_purchase(sid, entry, src) ==
    stream_create_event(sid, entry[1], src, "purchase", entry[2])

\* lines 70-88: locals, the repeat-user branch, the number of views
stream_session_start ==
    /\ mode = "stream"
    /\ pc = "loop"
    /\ n_sessions < MaxSessions
    /\ n_sessions' = n_sessions + 1
    /\ session_id' = n_sessions + 1
    /\ source' = "random.choice(sources)"
    /\ cart' = << >>
    /\ purchased_items' = << >>
    /\ i' = 0
    /\ session_timestamp' = 0
    /\ \/ /\ recent_user_activity # << >>      \* random() < PROB_REPEAT_USER
          /\ \E k \in 1..Len(recent_user_activity) :
               /\ user_id' = recent_user_activity[k][1]
               /\ prev_product' = recent_user_activity[k][2]
               /\ \/ /\ events' = << stream_repeat_purchase(session_id',
                                        recent_user_activity[k], source') >>
                     /\ n_views' = 0
                     /\ pc' = "return_repeat"
                  \/ /\ events' = << >>
                     /\ n_views' \in 1..MaxViews
                     /\ pc' = "browse"
       \/ /\ user_id' \in StreamUsers          \* new user session
          /\ prev_product' = NoProduct
          /\ events' = << >>
          /\ n_views' \in 1..MaxViews
          /\ pc' = "browse"
    /\ UNCHANGED << mode, memory_vars, session_events, backfill_driver_vars >>

\* lines 92-99: the events of one view and the cart after it
stream_view_events(product, add) ==
    LET ev(etype) == stream_create_event(session_id, user_id, source, etype,
                                         product)
    IN  IF ~add THEN << ev("product_view") >>
        ELSE IF product.in_stock = "True"
             THEN << ev("product_view"), ev("add_to_cart") >>
             ELSE << ev("product_view"), ev("add_to_cart_failure") >>

\* the cart without the stock test of line 94
stream_view_cart_unchecked(product, add) ==
    IF add THEN Append(cart, product) ELSE cart

\* lines 93-95: the cart after one view
stream_view_cart(product, add) ==
    IF add /\ product.in_stock = "True" THEN Append(cart, product) ELSE cart

\* lines 88-99: one iteration of the view loop
stream_view ==
    /\ mode = "stream"
    /\ pc = "browse"
    /\ \E p \in 1..Len(product_catalog), add \in BOOLEAN :
        /\ events' = events \o stream_view_events(product_catalog[p], add)
        /\ cart' = stream_view_cart(product_catalog[p], add)
    /\ i' = i + 1
    /\ pc' = IF i + 1 = n_views THEN "cart" ELSE "browse"
    /\ UNCHANGED << mode, memory_vars, n_sessions, session_id, user_id, source,
                    prev_product, purchased_items, n_views, session_timestamp,
                    session_events, backfill_driver_vars >>

\* the record made only while the memory has room
stream_record_if_room(c) ==
    IF Len(recent_user_activity) < MemCapacity
    THEN /\ recent_user_activity' =
                Append(recent_user_activity, << user_id, cart[c] >>)
         /\ mem_seq' = Append(mem_seq, n_appended + 1)
         /\ n_appended' = n_appended + 1
    ELSE UNCHANGED << recent_user_activity, mem_seq, n_appended >>

\* line 103: recent_user_activity.append((user_id, random.choice(cart)))
stream_record_abandonment(c) ==
    /\ recent_user_activity' =
           deque_append(recent_user_activity, << user_id, cart[c] >>)
    /\ mem_seq' = deque_append(mem_seq, n_appended + 1)
    /\ n_appended' = n_appended + 1

\* the sample drawn from the catalog in place of the cart
stream_items_from_catalog ==
    { [ j \in 1..Len(s) |-> product_catalog[s[j]] ] :
        s \in UNION { Samples(Len(product_catalog), k) :
                        k \in 1..Len(product_catalog) } }

\* lines 107-108: random.sample(cart, k=random.randint(1, len(cart)))
stream_items_to_buy ==
    { [ j \in 1..Len(s) |-> cart[s[j]] ] :
        s \in UNION { Samples(Len(cart), k) : k \in 1..Len(cart) } }

\* lines 109-111: one purchase event per item bought
stream_purchase_events(items) ==
    [ j \in 1..Len(items) |->
        stream_create_event(session_id, user_id, source, "purchase", items[j]) ]

\* lines 101-111: abandonment record and checkout
stream_checkout ==
    /\ mode = "stream"
    /\ pc = "cart"
    /\ pc' = "review"
    /\ IF cart = << >>
       THEN UNCHANGED << memory_vars, purchased_items, events >>
       ELSE /\ \E c \in 1..Len(cart) : stream_record_abandonment(c)
            /\ \/ UNCHANGED << purchased_items, events >>  \* no checkout
               \/ \E items_to_buy \in stream_items_to_buy :
                    /\ purchased_items' = purchased_items \o items_to_buy
                    /\ events' = events \o stream_purchase_events(items_to_buy)
    /\ UNCHANGED << mode, n_sessions, session_id, user_id, source, prev_product,
                    cart, n_views, i, session_timestamp, session_events,
                    backfill_driver_vars >>

\* lines 113-116: review of one purchased item
stream_review ==
    /\ mode = "stream"
    /\ pc = "review"
    /\ pc' = "returns"
    /\ \/ UNCHANGED events
       \/ /\ purchased_items # << >>
          /\ \E r \in 1..Len(purchased_items) :
               events' = Append(events,
                   stream_create_event(session_id, user_id, source,
                                       "submit_review", purchased_items[r]))
    /\ UNCHANGED << mode, memory_vars, n_sessions, session_id, user_id, source,
                    prev_product, cart, purchased_items, n_views, i,
                    session_timestamp, session_events, backfill_driver_vars >>

\* lines 119-121: the return events of the purchased items at `returned`
stream_return_events(returned) ==
    [ j \in 1..Len(returned) |->
        stream_create_event(session_id, user_id, source, "return_item",
                            purchased_items[returned[j]]) ]

\* lines 118-123: the return loop over the purchased items
stream_returns ==
    /\ mode = "stream"
    /\ pc = "returns"
    /\ pc' = "return"
    /\ \E keep \in [1..Len(purchased_items) -> BOOLEAN] :
        events' = events \o stream_return_events(Positions(keep))
    /\ UNCHANGED << mode, memory_vars, n_sessions, session_id, user_id, source,
                    prev_product, cart, purchased_items, n_views, i,
                    session_timestamp, session_events, backfill_driver_vars >>

\* ------------------------------------------------------ stream: main loop
StreamInTry == {"loop", "browse", "cart", "review", "returns", "return",
                "return_repeat", "publish"}

\* lines 165-167: the session list is bound; an empty list is not published
stream_session_returned ==
    /\ mode = "stream"
    /\ pc \in {"return", "return_repeat"}
    /\ session_events' = events
    /\ pc' = IF events # << >> THEN "publish" ELSE "loop"
    /\ LocalsGone
    /\ UNCHANGED << mode, memory_vars, n_sessions, backfill_driver_vars >>

\* lines 168-171: publish_event of the next event, then the pacing sleep
stream_publish ==
    /\ mode = "stream"
    /\ pc = "publish"
    /\ session_events' = Tail(session_events)
    /\ pc' = IF Tail(session_events) = << >> THEN "loop" ELSE "publish"
    /\ UNCHANGED << mode, memory_vars, n_sessions, session_locals,
                    backfill_driver_vars >>

\* no except Exception clause: the exception ends the script
stream_exception_uncaught == "crashed"

\* where an exception raised inside the try block takes the loop: the except
\* block of lines 175-177
stream_after_exception == "sleep5"

\* publish_event raises (json.dumps, publisher.publish): the event is not
\* sent, lines 175-176 print the error; the rest of the list is not read
\* again before line 165 rebinds session_events
stream_publish_raises ==
    /\ mode = "stream"
    /\ pc = "publish"
    /\ pc' = stream_after_exception
    /\ session_events' = << >>
    /\ UNCHANGED << mode, memory_vars, n_sessions, session_locals,
                    backfill_driver_vars >>

\* a call inside generate_user_session raises (a malformed catalog row in
\* _create_event): the locals are gone, lines 175-176 print the error
stream_session_raises ==
    /\ mode = "stream"
    /\ pc \in {"browse", "cart", "review", "returns"}
    /\ pc' = stream_after_exception
    /\ LocalsGone
    /\ UNCHANGED << mode, memory_vars, n_sessions, session_events,
                    backfill_driver_vars >>

\* line 177: time.sleep(5), then the next iteration of while True
stream_sleep5 ==
    /\ mode = "stream"
    /\ pc = "sleep5"
    /\ pc' = "loop"
    /\ UNCHANGED << mode, memory_vars, n_sessions, session_locals,
                    session_events, backfill_driver_vars >>

\* the process has ended: its memory is gone
ProcessGone ==
    /\ recent_user_activity' = << >>
    /\ mem_seq' = << >>
    /\ n_appended' = 0
    /\ n_sessions' = 0
    /\ session_events' = << >>
    /\ LocalsGone
    /\ UNCHANGED << mode, backfill_driver_vars >>

\* lines 172-174: Ctrl+C inside the try block: break
stream_keyboard_interrupt ==
    /\ mode = "stream"
    /\ pc \in StreamInTry
    /\ pc' = "stopped"
    /\ ProcessGone

\* Ctrl+C inside the except block (during time.sleep(5)) is not caught
stream_interrupt_in_handler ==
    /\ mode = "stream"
    /\ pc = "sleep5"
    /\ pc' = "interrupted"
    /\ ProcessGone

StreamNext ==
    \/ stream_session_start
    \/ stream_view
    \/ stream_checkout
    \/ stream_review
    \/ stream_returns
    \/ stream_session_returned
    \/ stream_publish
    \/ stream_publish_raises
    \/ stream_session_raises
    \/ stream_sleep5
    \/ stream_keyboard_interrupt
    \/ stream_interrupt_in_handler

\* ----------------------------------------- backfill: generate_user_session
\* random.randint(10, 60) seconds, random.randint(5, 15) minutes and
\* random.randint(1, 5) days: both ends of each range
ViewGaps == {10, 60}
PurchaseDelays == {5, 15}
ReturnDelays == {1, 5}
\* hour, minute and second of session_start_time, in seconds of the day:
\* 00:00:00 and 23:59:59
StartsOfDay == {0, 86399}

Min(a, b) == IF a < b THEN a ELSE b

\* lines 164-167 and 60-68: the start time, the locals, the number of views
backfill_session_start ==
    /\ mode = "backfill"
    /\ pc = "session_loop"
    /\ sessions_left > 0
    /\ n_sessions' = n_sessions + 1
    /\ session_id' = n_sessions + 1
    /\ user_id' \in BackfillUsers
    /\ source' = "random.choice(sources)"
    /\ prev_product' = NoProduct
    /\ cart' = << >>
    /\ purchased_items' = << >>
    /\ events' = << >>
    /\ n_views' \in 1..MaxViews
    /\ i' = 0
    /\ \E t \in StartsOfDay : session_timestamp' = t - day * 86400
    /\ pc' = "b_browse"
    /\ UNCHANGED << mode, memory_vars, session_events, backfill_driver_vars >>

\* line 71: session_timestamp + timedelta(seconds=i * random.randint(10, 60))
backfill_view_ts(gap) == session_timestamp + i * gap

\* lines 72-78: the events of one view
backfill_view_events(product, add, event_ts) ==
    LET ev(etype) == backfill_create_event(session_id, user_id, source, etype,
                                           product, event_ts)
    IN  IF add /\ product.in_stock = "True"
        THEN << ev("product_view"), ev("add_to_cart") >>
        ELSE << ev("product_view") >>

\* the cart without the stock test of line 76
backfill_view_cart_unchecked(product, add) ==
    IF add THEN Append(cart, product) ELSE cart

\* lines 75-77: the cart after one view
backfill_view_cart(product, add) ==
    IF add /\ product.in_stock = "True" THEN Append(cart, product) ELSE cart

\* lines 68-78: one iteration of the view loop
backfill_view ==
    /\ mode = "backfill"
    /\ pc = "b_browse"
    /\ \E p \in 1..Len(product_catalog), add \in BOOLEAN, gap \in ViewGaps :
        /\ events' = events \o backfill_view_events(product_catalog[p], add,
                                                    backfill_view_ts(gap))
        /\ cart' = backfill_view_cart(product_catalog[p], add)
    /\ i' = i + 1
    /\ pc' = IF i + 1 = n_views THEN "b_cart" ELSE "b_browse"
    /\ UNCHANGED << mode, memory_vars, n_sessions, session_id, user_id, source,
                    prev_product, purchased_items, n_views, session_timestamp,
                    session_events, backfill_driver_vars >>

\* lines 83-84: random.sample(cart, k=random.randint(1, len(cart)))
backfill_items_to_buy ==
    { [ j \in 1..Len(s) |-> cart[s[j]] ] :
        s \in UNION { Samples(Len(cart), k) : k \in 1..Len(cart) } }

\* line 87: session_timestamp + timedelta(minutes=random.randint(5, 15))
backfill_purchase_ts(minutes) == session_timestamp + 60 * minutes

\* lines 86-89: one purchase event per item bought, each with its own delay
backfill_purchase_events(items, delays) ==
    [ j \in 1..Len(items) |->
        backfill_create_event(session_id, user_id, source, "purchase", items[j],
                              backfill_purchase_ts(delays[j])) ]

\* lines 80-89: checkout
backfill_checkout ==
    /\ mode = "backfill"
    /\ pc = "b_cart"
    /\ pc' = "b_returns"
    /\ \/ UNCHANGED << purchased_items, events >>   \* empty cart or no checkout
       \/ /\ cart # << >>
          /\ \E items_to_buy \in backfill_items_to_buy :
             \E delays \in [1..Len(items_to_buy) -> PurchaseDelays] :
               /\ purchased_items' = purchased_items \o items_to_buy
               /\ events' = events \o
                              backfill_purchase_events(items_to_buy, delays)
    /\ UNCHANGED << mode, memory_vars, n_sessions, session_id, user_id, source,
                    prev_product, cart, n_views, i, session_timestamp,
                    session_events, backfill_driver_vars >>

\* line 95: session_timestamp + timedelta(days=random.randint(1, 5))
backfill_return_ts(days) == session_timestamp + 86400 * days

\* lines 92-96: the return events of the purchased items at `returned`
backfill_return_events(returned, delays) ==
    [ j \in 1..Len(returned) |->
        backfill_create_event(session_id, user_id, source, "return_item",
                              purchased_items[returned[j]],
                              backfill_return_ts(delays[j])) ]

\* lines 91-98: the return loop over the purchased items
backfill_returns ==
    /\ mode = "backfill"
    /\ pc = "b_returns"
    /\ pc' = "b_return"
    /\ \E keep \in [1..Len(purchased_items) -> BOOLEAN] :
       \E delays \in [1..Len(Positions(keep)) -> ReturnDelays] :
         events' = events \o backfill_return_events(Positions(keep), delays)
    /\ UNCHANGED << mode, memory_vars, n_sessions, session_id, user_id, source,
                    prev_product, cart, purchased_items, n_views, i,
                    session_timestamp, session_events, backfill_driver_vars >>

\* ---------------------------------------------------- backfill: main block
\* current_day.weekday() of today - timedelta(days=d); 0 = Monday
current_weekday(d) == (today - d) % 7

\* line 159, in tenths: 1.5 if current_day.weekday() >= 4 else 1.0
weekday_multiplier(wd) == IF wd >= 4 THEN 15 ELSE 10

\* line 160: the bounds of random.randint, int() of the two products
session_count_range(mult) ==
    << (AVG_SESSIONS_PER_DAY * 7 * mult) \div 100,
       (AVG_SESSIONS_PER_DAY * 13 * mult) \div 100 >>

\* lines 155-160: the next day of the loop; the session loop of the day is
\* cut once MaxSessions sessions have been generated in the run
backfill_next_day ==
    /\ mode = "backfill"
    /\ pc = "day_loop"
    /\ day >= 1
    /\ sessions_multiplier' = weekday_multiplier(current_weekday(day))
    /\ num_sessions_range' = session_count_range(sessions_multiplier')
    /\ \E num_sessions \in num_sessions_range'[1]..num_sessions_range'[2] :
         sessions_left' = Min(num_sessions, MaxSessions - n_sessions)
    /\ pc' = "session_loop"
    /\ UNCHANGED << mode, memory_vars, n_sessions, session_locals,
                    session_events, today, day, has_historical_events >>

\* line 168: all_historical_events.extend(generate_user_session(...))
backfill_session_returned ==
    /\ mode = "backfill"
    /\ pc = "b_return"
    /\ has_historical_events' = (has_historical_events \/ events # << >>)
    /\ sessions_left' = sessions_left - 1
    /\ pc' = "session_loop"
    /\ LocalsGone
    /\ UNCHANGED << mode, memory_vars, n_sessions, session_events, today, day,
                    sessions_multiplier, num_sessions_range >>

\* line 162: the session loop of the day is exhausted
backfill_day_done ==
    /\ mode = "backfill"
    /\ pc = "session_loop"
    /\ sessions_left = 0
    /\ day' = day - 1
    /\ pc' = "day_loop"
    /\ UNCHANGED << mode, memory_vars, n_sessions, session_locals,
                    session_events, today, sessions_multiplier,
                    num_sessions_range, sessions_left, has_historical_events >>

\* lines 170-173: upload_to_bigquery, or the message that nothing was generated
backfill_finish ==
    /\ mode = "backfill"
    /\ pc = "day_loop"
    /\ day = 0
    /\ pc' = IF has_historical_events THEN "uploaded" ELSE "nothing_generated"
    /\ UNCHANGED << mode, memory_vars, n_sessions, session_locals,
                    session_events, backfill_driver_vars >>

BackfillNext ==
    \/ backfill_next_day
    \/ backfill_session_start
    \/ backfill_view
    \/ backfill_checkout
    \/ backfill_returns
    \/ backfill_session_returned
    \/ backfill_day_done
    \/ backfill_finish

Next == StreamNext \/ BackfillNext

Spec == Init /\ [][Next]_vars

\* ------------------------------------------------------------- properties
EventsOfType(evs, types) == { j \in 1..Len(evs) : evs[j].event_type \in types }

\* an add_to_cart event of the same session and product earlier in the list
AddedBefore(evs, j) ==
    \E k \in 1..(j - 1) :
        /\ evs[k].event_type = "add_to_cart"
        /\ evs[k].session_id = evs[j].session_id
        /\ evs[k].product_id = evs[j].product_id

MemoryEntries == { recent_user_activity[k] : k \in 1..Len(recent_user_activity) }

\* C1 as stated: in the event list of every session, of either script, each
\* purchase and each return_item event comes after an add_to_cart event of
\* the same session_id and product_id.
C1_EveryPurchaseAddedBefore ==
    \A j \in EventsOfType(events, {"purchase", "return_item"}) :
        AddedBefore(events, j)

\* C1 amended: the same, except for the single purchase event of a stream
\* session that took the repeat-purchase shortcut; that event is the whole
\* list and its user and product are an entry of the Repeat-User Memory.
C1_PurchaseAddedBeforeOrRepeat ==
    \A j \in EventsOfType(events, {"purchase", "return_item"}) :
        \/ AddedBefore(events, j)
        \/ /\ mode = "stream"
           /\ pc = "return_repeat"
           /\ Len(events) = 1
           /\ events[j].event_type = "purchase"
           /\ \E entry \in MemoryEntries :
                /\ entry[1] = events[j].user_id
                /\ entry[2].product_id = events[j].product_id

\* C1 witness: a finished browsing session of a repeat user of the stream,
\* with a purchase and a return
C1_Witness ==
    /\ pc = "return"
    /\ prev_product # NoProduct
    /\ EventsOfType(events, {"purchase"}) # {}
    /\ EventsOfType(events, {"return_item"}) # {}

\* C2 as stated: an event record has no quantity key unless its type is
\* add_to_cart, purchase or return_item (both scripts).
C2_QuantityAbsentOtherwise ==
    \A j \in 1..Len(events) :
        events[j].event_type \notin PricedTypes
            => "quantity" \notin DOMAIN events[j]

\* C3: the Repeat-User Memory never holds more than its capacity, it holds
\* exactly the most recent insertions in insertion order (so an entry followed
\* by MemCapacity further insertions is gone), and the entry a session draws
\* is one the memory holds at that moment.
C3_BoundedRecencyBuffer ==
    /\ Len(recent_user_activity) <= MemCapacity
    /\ Len(recent_user_activity) = Min(n_appended, MemCapacity)
    /\ Len(mem_seq) = Len(recent_user_activity)
    /\ \A k \in 1..Len(mem_seq) :
          mem_seq[k] = n_appended - Len(mem_seq) + k
    /\ (pc \in {"browse", "cart", "return_repeat"} /\ prev_product # NoProduct)
          => << user_id, prev_product >> \in MemoryEntries

\* C3 witness: a session draws from the memory after the first eviction
C3_Witness ==
    /\ n_appended > MemCapacity
    /\ pc = "return_repeat"
    /\ << user_id, prev_product >> \in MemoryEntries


\* C4 as stated: the timestamps of a backfill session's event list never
\* decrease along the list.
C4_BackfillTimestampsMonotone ==
    mode = "backfill" =>
        \A a, b \in 1..Len(events) :
            a < b => events[a].event_timestamp <= events[b].event_timestamp

\* C5 as stated: the backfill driver boosts the session count by 1.5 on
\* Friday (4) and Saturday (5) only; on the other five weekdays the
\* multiplier is 1.0 and the count is drawn from [0.7, 1.3] x 250.
C5_BoostOnFridayAndSaturdayOnly ==
    (mode = "backfill" /\ pc = "session_loop") =>
        /\ sessions_multiplier = 15 <=> current_weekday(day) \in {4, 5}
        /\ current_weekday(day) \notin {4, 5} =>
              /\ sessions_multiplier = 10
              /\ num_sessions_range = << 175, 325 >>

\* C6: every event of every session, of either script, the repeat purchase
\* of the stream included, carries the product_id of a catalog record.
C6_ProductIdInCatalog ==
    /\ \A j \in 1..Len(events) : events[j].product_id \in CatalogIds
    /\ \A j \in 1..Len(session_events) :
          session_events[j].product_id \in CatalogIds

\* C6 witness: a repeat purchase, whose product comes from the memory
C6_Witness ==
    /\ pc = "return_repeat"
    /\ Len(events) = 1
    /\ events[1].product_id = prev_product.product_id
    /\ events[1].product_id \in CatalogIds

\* C7: in the stream loop an exception never ends the run: it leads to the
\* 5-second sleep and from there to the top of the loop; only Ctrl+C ends the
\* loop; publishing is entered only with a newly generated session list, so
\* the events left unpublished by a failed iteration are never sent.
C7_ErrorsAreNotFatal ==
    [][ mode = "stream" =>
          /\ pc' \in StreamInTry \cup {"sleep5", "stopped", "interrupted"}
          /\ (pc' = "sleep5") =>
                /\ pc \in {"browse", "cart", "review", "returns", "publish"}
                /\ session_events' = << >>
                /\ events' = << >>
          /\ (pc = "sleep5") => pc' \in {"loop", "interrupted"}
          /\ (pc \in {"stopped", "interrupted"}) => pc' = pc
          /\ (pc' = "stopped") => pc \in StreamInTry
          /\ (pc' = "interrupted") => pc \in {"sleep5", "interrupted"}
          /\ (pc' = "publish" /\ pc # "publish") =>
                /\ pc \in {"return", "return_repeat"}
                /\ session_events' = events
          /\ (pc = "publish" /\ pc' \in {"publish", "loop"}) =>
                session_events' = Tail(session_events)
      ]_vars

\* C7 witness: the sleep after a failed iteration, with sessions still to run
C7_Witness ==
    /\ pc = "sleep5"
    /\ session_events = << >>
    /\ n_sessions < MaxSessions
    /\ recent_user_activity # << >>

\* C8: a stream session that takes the repeat-purchase shortcut returns one
\* event, a purchase with the user and the product of the entry drawn from the
\* memory; the memory is not empty before it and not changed by it.
C8_RepeatPurchaseShortcut ==
    [][ /\ (pc' = "return_repeat" /\ pc # "return_repeat") =>
              /\ recent_user_activity # << >>
              /\ recent_user_activity' = recent_user_activity
              /\ << user_id', prev_product' >> \in MemoryEntries
              /\ Len(events') = 1
              /\ events'[1].event_type = "purchase"
              /\ events'[1].user_id = user_id'
              /\ events'[1].product_id = prev_product'.product_id
              /\ events'[1].session_id = session_id'
              /\ cart' = << >>
        /\ (pc = "return_repeat" /\ pc' = "publish") =>
              /\ recent_user_activity' = recent_user_activity
              /\ session_events' = events
              /\ Len(session_events') = 1
      ]_vars

\* C8 witness: the shortcut taken by the second user of a full memory
C8_Witness ==
    /\ pc = "return_repeat"
    /\ Len(recent_user_activity) = MemCapacity
    /\ user_id = recent_user_activity[MemCapacity][1]
    /\ user_id # recent_user_activity[1][1]

Count(evs, etype, pid) ==
    Cardinality({ j \in 1..Len(evs) :
                    evs[j].event_type = etype /\ evs[j].product_id = pid })

BrowsingPcs == {"browse", "cart", "review", "returns", "return",
                "b_browse", "b_cart", "b_returns", "b_return"}

\* C10: in a session that browses (both scripts) there are purchases only
\* after checkout of a non-empty cart: between 1 and Len(cart) of them, per
\* product no more than its add_to_cart events; returns per product are no
\* more than its purchases; with an empty cart there is no purchase, review
\* or return event.
C10_PurchasesWithinCart ==
    pc \in BrowsingPcs =>
        LET purchases == EventsOfType(events, {"purchase"})
        IN  /\ Cardinality(purchases) = Len(purchased_items)
            /\ Cardinality(purchases) <= Len(cart)
            /\ purchases # {} => pc \notin {"browse", "cart", "b_browse", "b_cart"}
            /\ Len(cart) = Cardinality(EventsOfType(events, {"add_to_cart"}))
            /\ \A pid \in CatalogIds :
                  /\ Count(events, "purchase", pid) <= Count(events, "add_to_cart", pid)
                  /\ Count(events, "return_item", pid) <= Count(events, "purchase", pid)
            /\ cart = << >> =>
                  EventsOfType(events, {"purchase", "submit_review",
                                        "return_item"}) = {}
            /\ Cardinality(EventsOfType(events, {"submit_review"})) <= 1
            /\ purchases = {} =>
                  EventsOfType(events, {"submit_review", "return_item"}) = {}

\* C10 witness: a stream session that bought its whole cart of two and
\* returned both items
C10_Witness ==
    /\ pc = "return"
    /\ Len(cart) = 2
    /\ Cardinality(EventsOfType(events, {"purchase"})) = 2
    /\ Cardinality(EventsOfType(events, {"return_item"})) = 2

\* the product_id values of the catalog rows whose in_stock column is 'True'
InStockIds ==
    { product_catalog[k].product_id :
        k \in { r \in 1..Len(product_catalog) :
                  product_catalog[r].in_stock = "True" } }

StockBoundTypes == {"add_to_cart", "purchase", "submit_review", "return_item"}

\* the events that one view of catalog row p adds to a session of the stream
\* when the user does not try, or tries, to put it in the cart
ViewAdds(added, p) ==
    /\ Len(added) \in {1, 2}
    /\ \A j \in 1..Len(added) : added[j].product_id = p.product_id
    /\ added[1].event_type = "product_view"
    /\ Len(added) = 2 =>
          added[2].event_type \in {"add_to_cart", "add_to_cart_failure"}

\* the stock condition on the session list, the list being published, the
\* cart and the Repeat-User Memory
StockState ==
    /\ \A j \in 1..Len(events) :
          events[j].event_type \in StockBoundTypes
              => events[j].product_id \in InStockIds
    /\ \A j \in 1..Len(session_events) :
          session_events[j].event_type \in StockBoundTypes
              => session_events[j].product_id \in InStockIds
    /\ \A k \in 1..Len(recent_user_activity) :
          /\ recent_user_activity[k][2].in_stock = "True"
          /\ recent_user_activity[k][2].product_id \in InStockIds
    /\ \A k \in 1..Len(cart) : cart[k].in_stock = "True"
    /\ \A j \in 1..Len(events) :
          events[j].event_type = "add_to_cart_failure" =>
              /\ mode = "stream"
              /\ events[j].product_id \notin InStockIds
    /\ \A j \in 1..Len(session_events) :
          session_events[j].event_type = "add_to_cart_failure" =>
              /\ mode = "stream"
              /\ session_events[j].product_id \notin InStockIds

\* one iteration of the view loop of the stream, seen from outside
StockStepStream ==
    (pc = "browse" /\ pc' \in {"browse", "cart"}) =>
        \E r \in 1..Len(product_catalog) :
          LET p == product_catalog[r]
              added == SubSeq(events', Len(events) + 1, Len(events'))
          IN  /\ SubSeq(events', 1, Len(events)) = events
              /\ ViewAdds(added, p)
              /\ Len(added) = 2 =>
                   (added[2].event_type = "add_to_cart_failure"
                      <=> p.in_stock # "True")
              /\ cart' = IF Len(added) = 2 /\ p.in_stock = "True"
                         THEN Append(cart, p) ELSE cart

\* one iteration of the view loop of the backfill, seen from outside
StockStepBackfill ==
    (pc = "b_browse" /\ pc' \in {"b_browse", "b_cart"}) =>
        \E r \in 1..Len(product_catalog) :
          LET p == product_catalog[r]
              added == SubSeq(events', Len(events) + 1, Len(events'))
          IN  /\ SubSeq(events', 1, Len(events)) = events
              /\ ViewAdds(added, p)
              /\ Len(added) = 2 =>
                   /\ added[2].event_type = "add_to_cart"
                   /\ p.in_stock = "True"
              /\ cart' = IF Len(added) = 2 THEN Append(cart, p) ELSE cart

\* C11: in either script no add_to_cart, purchase, submit_review or
\* return_item event (the repeat purchase of the stream included, listed or
\* waiting to be published) names a product that is not in stock, and every
\* product held in the Repeat-User Memory is in stock; a backfill session has
\* no add_to_cart_failure event; in the stream an add_to_cart_failure event
\* names a product that is not in stock, and a view step that tries the cart
\* adds add_to_cart and the product to the cart when it is in stock, and
\* add_to_cart_failure with the cart unchanged when it is not; a backfill
\* view step adds at most an add_to_cart, of a product in stock.
C11_StockInvariant ==
    []StockState /\ [][StockStepStream /\ StockStepBackfill]_vars

\* C11 witness: a finished stream session of a repeat user in which one cart
\* attempt failed on the product out of stock and another one led to a
\* purchase
C11_Witness ==
    /\ mode = "stream"
    /\ pc = "return"
    /\ prev_product # NoProduct
    /\ \E j \in EventsOfType(events, {"add_to_cart_failure"}) :
          events[j].product_id \notin InStockIds
    /\ EventsOfType(events, {"purchase"}) # {}

====
